---- MODULE Spec2Model ----
(***************************************************************************)
(* BundlerJsonRpcProvider (src/src/provider.ts, with the earlier revision  *)
(* of the class in src/unnamed/part_000): a JSON-RPC client that forwards  *)
(* the five ERC-4337 bundler methods to an optional bundler provider and   *)
(* sends everything else itself, as an axios POST carrying a User-Agent.   *)
(*                                                                         *)
(* JavaScript values are records [t, v]; an exception is a record          *)
(* [name, message, isAxiosError, response, code]; a message built by a     *)
(* template literal is the sequence of its pieces, in order, so that       *)
(* "the message contains X" is membership of X among the pieces and "the   *)
(* message starts with P" is its first piece.                              *)
(***************************************************************************)
EXTENDS Integers, Sequences, FiniteSets, TLC

VARIABLES
    rpcUrl,      \* this.connection.url, from the constructor's rpcUrl
    userAgent,   \* this.userAgent, from the constructor
    bundlerRpc,  \* this.bundlerRpc: NoProvider, or the provider bound to a URL
    calls,       \* the promises handed out by send / fetchJson, by caller
    ctor,        \* history: the arguments the constructor was called with
    lastSet      \* history: the argument of the latest setBundlerRpc call

vars == <<rpcUrl, userAgent, bundlerRpc, calls, ctor, lastSet>>

----------------------------------------------------------------------------
(* JavaScript values *)

Undefined == [t |-> "undefined", v |-> ""]
Null == [t |-> "null", v |-> ""]
Bool(s) == [t |-> "boolean", v |-> s]
Num(s) == [t |-> "number", v |-> s]
Str(s) == [t |-> "string", v |-> s]
BigIntV(s) == [t |-> "bigint", v |-> s]
Arr(elems) == [t |-> "array", v |-> elems]
\* an object is the sequence of its <<key, value>> properties, in insertion order
Obj(props) == [t |-> "object", v |-> props]

Range(s) == {s[i] : i \in DOMAIN s}

\* if (x), x || y: JavaScript truthiness
Truthy(x) ==
    CASE x.t \in {"undefined", "null"} -> FALSE
      [] x.t = "boolean" -> x.v = "true"
      [] x.t = "number" -> x.v \notin {"0", "NaN"}
      [] x.t \in {"string", "bigint"} -> x.v # ""
      [] OTHER -> TRUE

\* x.f throws a TypeError on undefined and null
CanGet(x) == x.t \notin {"undefined", "null"}

\* x.f: the property's value, undefined when x has no such property
Get(x, f) ==
    IF x.t = "object" /\ \E i \in DOMAIN x.v : x.v[i][1] = f
    THEN LET i == CHOOSE j \in DOMAIN x.v : x.v[j][1] = f IN x.v[i][2]
    ELSE Undefined

\* `${x}`: String(x) of a template literal
ToStr(x) ==
    CASE x.t = "undefined" -> "undefined"
      [] x.t = "null" -> "null"
      [] x.t = "object" -> "[object Object]"
      [] x.t = "array" -> "[array]"
      [] OTHER -> x.v

RECURSIVE Serializable(_)
\* JSON.stringify throws a TypeError on a BigInt anywhere in the value
Serializable(x) ==
    CASE x.t = "bigint" -> FALSE
      [] x.t = "array" -> \A i \in DOMAIN x.v : Serializable(x.v[i])
      [] x.t = "object" -> \A i \in DOMAIN x.v : Serializable(x.v[i][2])
      [] OTHER -> TRUE

RECURSIVE JSONtext(_), JSONelems(_), JSONprops(_)
\* JSON.stringify of a serializable value: the text
JSONtext(x) ==
    CASE x.t \in {"undefined", "null"} -> "null"
      [] x.t = "string" -> "\"" \o x.v \o "\""
      [] x.t = "array" -> "[" \o JSONelems(x.v) \o "]"
      [] x.t = "object" -> "{" \o JSONprops(x.v) \o "}"
      [] OTHER -> x.v
JSONelems(s) ==
    IF s = <<>> THEN ""
    ELSE JSONtext(Head(s)) \o (IF Tail(s) = <<>> THEN "" ELSE ",") \o JSONelems(Tail(s))
JSONprops(s) ==
    IF s = <<>> THEN ""
    ELSE "\"" \o Head(s)[1] \o "\":" \o JSONtext(Head(s)[2])
         \o (IF Tail(s) = <<>> THEN "" ELSE ",") \o JSONprops(Tail(s))

\* JSON.stringify(x): the text, or the TypeError it throws
JSONstringify(x) ==
    IF Serializable(x) THEN [ok |-> TRUE, text |-> JSONtext(x)]
    ELSE [ok |-> FALSE, text |-> ""]

----------------------------------------------------------------------------
(* Exceptions *)

NoResponse == [kind |-> "none", status |-> 0, data |-> Undefined]

\* new Error(message): a plain Error has no code property
NewError(message) ==
    [name |-> "Error", message |-> message, isAxiosError |-> FALSE,
     response |-> NoResponse, code |-> Undefined]

\* the TypeError of the runtime (JSON.stringify of a BigInt, a property of null)
TypeError(text) ==
    [name |-> "TypeError", message |-> <<text>>, isAxiosError |-> FALSE,
     response |-> NoResponse, code |-> Undefined]

\* `${error}`: Error.prototype.toString, "<name>: <message>"
ErrorToString(e) == <<e.name \o ": ">> \o e.message

----------------------------------------------------------------------------
(* The HTTP layer, as axios presents it *)

\* one decimal digit
Digit(d) == CASE d = 0 -> "0" [] d = 1 -> "1" [] d = 2 -> "2" [] d = 3 -> "3"
              [] d = 4 -> "4" [] d = 5 -> "5" [] d = 6 -> "6" [] d = 7 -> "7"
              [] d = 8 -> "8" [] OTHER -> "9"

RECURSIVE IntToStr(_)
\* `${statusCode}` of a number
IntToStr(n) == IF n < 10 THEN Digit(n) ELSE IntToStr(n \div 10) \o Digit(n % 10)

\* what the server (or the network) answers to one POST
HttpResponse(status, data) == [kind |-> "http", status |-> status, data |-> data]
NetworkError == [kind |-> "network", status |-> 0, data |-> Undefined]
Timeout == [kind |-> "timeout", status |-> 0, data |-> Undefined]

\* axios' default validateStatus: the promise resolves on 2xx only
validateStatus(status) == status >= 200 /\ status < 300

\* the AxiosError a rejected request carries: error.response is set only
\* when the server answered
AxiosError(resp) ==
    [name |-> "AxiosError",
     message |-> CASE resp.kind = "http" ->
                        <<"Request failed with status code " \o IntToStr(resp.status)>>
                   [] resp.kind = "timeout" -> <<"timeout exceeded">>
                   [] OTHER -> <<"Network Error">>,
     isAxiosError |-> TRUE,
     response |-> IF resp.kind = "http" THEN resp ELSE NoResponse,
     code |-> Str("ERR_AXIOS")]

\* await axios(request): the response, or the AxiosError thrown
axios(resp) ==
    IF resp.kind = "http" /\ validateStatus(resp.status)
    THEN [ok |-> TRUE, response |-> resp, error |-> NewError(<<>>)]
    ELSE [ok |-> FALSE, response |-> NoResponse, error |-> AxiosError(resp)]

----------------------------------------------------------------------------
(* How a promise settles *)

NoError == [name |-> "", message |-> <<>>, isAxiosError |-> FALSE,
            response |-> NoResponse, code |-> Undefined]
Pending == [kind |-> "pending", value |-> Undefined, error |-> NoError]
Return(v) == [kind |-> "value", value |-> v, error |-> NoError]
Throw(e) == [kind |-> "error", value |-> Undefined, error |-> e]

----------------------------------------------------------------------------
(* BundlerJsonRpcProvider *)

NoProvider == [url |-> ""]
\* new ethers.providers.JsonRpcProvider(url)
JsonRpcProvider(url) == [url |-> url]

bundlerMethods ==
    {"eth_sendUserOperation", "eth_estimateUserOperationGas",
     "eth_getUserOperationByHash", "eth_getUserOperationReceipt",
     "eth_supportedEntryPoints"}

\* setBundlerRpc, had it cleared the provider when given nothing
setBundlerRpcClearing(current, arg) ==
    IF Truthy(arg) THEN JsonRpcProvider(arg.v) ELSE NoProvider

\* setBundlerRpc(bundlerRpc): the value of this.bundlerRpc afterwards
setBundlerRpc(current, arg) ==
    IF Truthy(arg) THEN JsonRpcProvider(arg.v) ELSE current

\* send's condition, had the set missed its last entry
routedMissingEntry(provider, method) ==
    provider # NoProvider /\ method \in bundlerMethods \ {"eth_supportedEntryPoints"}

\* send's condition, had it matched a routed name as a prefix of the method
routedByPrefix(provider, method) ==
    provider # NoProvider /\ \E b \in bundlerMethods : method \in {b, b \o "V2"}

\* the condition of send's if
routed(provider, method) == provider # NoProvider /\ method \in bundlerMethods

NoRequest == [method |-> "", url |-> "", headers |-> <<>>, data |-> ""]

\* the body of a JSON-RPC request: { method, params, id, jsonrpc: "2.0" }
Envelope(method, params, now) ==
    Obj(<< <<"method", Str(method)>>, <<"params", Arr(params)>>,
           <<"id", Num(now)>>, <<"jsonrpc", Str("2.0")>> >>)

\* _send's request object, had the User-Agent header been left out
buildRequestNoAgent(url, agent, method, params, now) ==
    LET body == JSONstringify(Envelope(method, params, now)) IN
    [ok |-> body.ok,
     request |-> [method |-> "POST", url |-> url,
                  headers |-> << <<"Content-Type", "application/json">> >>,
                  data |-> body.text]]

\* _send's request object; JSON.stringify may throw while it is built
buildRequest(url, agent, method, params, now) ==
    LET body == JSONstringify(Envelope(method, params, now)) IN
    [ok |-> body.ok,
     request |-> [method |-> "POST", url |-> url,
                  headers |-> << <<"Content-Type", "application/json">>,
                                 <<"User-Agent", agent>> >>,
                  data |-> body.text]]

\* _send's try block, had it tested the result for truth before returning it
tryBlockTruthyResult(resp) ==
    LET r == axios(resp) IN
    IF ~r.ok THEN Throw(r.error)
    ELSE LET data == r.response.data IN
         IF ~CanGet(data)
         THEN Throw(TypeError("Cannot read properties of " \o ToStr(data)))
         ELSE IF Truthy(Get(data, "error"))
         THEN Throw(NewError(<<"RPC Error: ",
                               ToStr(Get(Get(data, "error"), "message")),
                               " (Code: ",
                               ToStr(Get(Get(data, "error"), "code")),
                               ")">>))
         ELSE IF Truthy(Get(data, "result")) THEN Return(Get(data, "result"))
         ELSE Return(Undefined)

\* _send's try block, given what the POST came back with
tryBlock(resp) ==
    LET r == axios(resp) IN
    IF ~r.ok THEN Throw(r.error)
    ELSE LET data == r.response.data IN
         IF ~CanGet(data)
         THEN Throw(TypeError("Cannot read properties of " \o ToStr(data)))
         ELSE IF Truthy(Get(data, "error"))
         THEN Throw(NewError(<<"RPC Error: ",
                               ToStr(Get(Get(data, "error"), "message")),
                               " (Code: ",
                               ToStr(Get(Get(data, "error"), "code")),
                               ")">>))
         ELSE Return(Get(data, "result"))

\* _send's catch block, had it read error.status (which axios does not set)
\* for error.response.status
catchBlockNoStatus(error, method, params) ==
    IF error.isAxiosError
    THEN LET responseData == IF error.response.kind = "http" /\ Truthy(error.response.data)
                             THEN error.response.data
                             ELSE Obj(<<>>)
             inner == Get(responseData, "error")
             errorMessage == IF CanGet(inner) /\ Truthy(Get(inner, "message"))
                             THEN ToStr(Get(inner, "message"))
                             ELSE error.message[1]
         IN Throw(NewError(<<"HTTP ", "Unknown Status Code", " - RPC request failed: ",
                             errorMessage,
                             "\nRequest Method: ", method,
                             "\nRequest Params: ", JSONstringify(Arr(params)).text,
                             "\nResponse Data: ", JSONstringify(responseData).text>>))
    ELSE Throw(NewError(<<"Unexpected error during RPC request: ">>
                        \o ErrorToString(error)))

\* _send's catch block: every exception of the try block is rethrown wrapped
catchBlock(error, method, params) ==
    IF error.isAxiosError
    THEN LET statusCode == IF error.response.kind = "http" /\ error.response.status # 0
                           THEN IntToStr(error.response.status)
                           ELSE "Unknown Status Code"
             responseData == IF error.response.kind = "http" /\ Truthy(error.response.data)
                             THEN error.response.data
                             ELSE Obj(<<>>)
             inner == Get(responseData, "error")
             errorMessage == IF CanGet(inner) /\ Truthy(Get(inner, "message"))
                             THEN ToStr(Get(inner, "message"))
                             ELSE error.message[1]
         IN Throw(NewError(<<"HTTP ", statusCode, " - RPC request failed: ",
                             errorMessage,
                             "\nRequest Method: ", method,
                             "\nRequest Params: ", JSONstringify(Arr(params)).text,
                             "\nResponse Data: ", JSONstringify(responseData).text>>))
    ELSE Throw(NewError(<<"Unexpected error during RPC request: ">>
                        \o ErrorToString(error)))

\* how _send settles once the POST has come back
_send(method, params, resp) ==
    LET r == tryBlock(resp) IN
    IF r.kind = "error" THEN catchBlock(r.error, method, params) ELSE r

----------------------------------------------------------------------------
(* One call of send (or of fetchJson), from invocation to settlement *)

NoForward == [method |-> "", params |-> <<>>]

\* a caller that holds no promise
Idle ==
    [pc |-> "idle", api |-> "", method |-> "", params |-> <<>>,
     cfg |-> NoProvider, transport |-> "none", provider |-> NoProvider,
     forward |-> NoForward, request |-> NoRequest, posts |-> 0, forwards |-> 0,
     response |-> NoResponse, outcome |-> Pending]

\* send(method, params), up to the point where it waits: the promise it hands
\* out. cfg records this.bundlerRpc as the call found it; forward is what
\* bundlerRpc.send was called with, request what axios was called with.
send(provider, url, agent, method, params, now) ==
    LET call == [Idle EXCEPT !.api = "send", !.method = method,
                             !.params = params, !.cfg = provider]
    IN IF routed(provider, method)
       THEN [call EXCEPT !.pc = "inflight", !.transport = "secondary",
                         !.provider = provider,
                         !.forward = [method |-> method, params |-> params],
                         !.forwards = 1]
       ELSE LET b == buildRequest(url, agent, method, params, now) IN
            IF b.ok
            THEN [call EXCEPT !.pc = "inflight", !.transport = "primary",
                              !.request = b.request, !.posts = 1]
            ELSE [call EXCEPT !.pc = "done", !.transport = "primary",
                              !.outcome = Throw(TypeError(
                                  "Do not know how to serialize a BigInt"))]

\* the promise of send once the POST of _send has come back
settlePrimary(call, resp) ==
    [call EXCEPT !.pc = "done", !.response = resp,
                 !.outcome = _send(call.method, call.params, resp)]

\* the provider of a forwarded call, had this.bundlerRpc been read again when
\* the call is served
servingProviderCurrent(call, current) ==
    IF current # NoProvider THEN current ELSE call.provider

\* the provider whose send the promise of a forwarded call belongs to: the
\* one this.bundlerRpc held when send ran
servingProvider(call, current) == call.provider

\* how provider.send(method, params) may settle: with the bundler's value or
\* with its error (ethers' JsonRpcProvider, outside this repository)
bundlerSend(provider, method, params) ==
    {Return(Str(method \o "@" \o provider.url)),
     Throw(NewError(<<"bundler " \o provider.url \o " failed ", method>>))}

\* the promise of a forwarded call, had send fallen back to its own POST
\* when the bundler fails
settleSecondaryFallback(call, result) ==
    IF result.kind = "error"
    THEN [call EXCEPT !.transport = "primary", !.posts = 1,
                      !.request = buildRequest(rpcUrl, userAgent, call.method,
                                               call.params, "1700000000000").request]
    ELSE [call EXCEPT !.pc = "done", !.outcome = result]

\* the promise of send once bundlerRpc.send has settled: returned as it is
settleSecondary(call, result) ==
    [call EXCEPT !.pc = "done", !.outcome = result]

\* fetchJson(connection, json), up to customAxios.post
fetchJson(agent, connection, json) ==
    [Idle EXCEPT !.pc = "inflight", !.api = "fetchJson", !.transport = "primary",
                 !.posts = 1,
                 !.request = [method |-> "POST", url |-> connection,
                              headers |-> << <<"User-Agent", agent>>,
                                             <<"Content-Type", "application/json">> >>,
                              data |-> json]]

\* fetchJson once the POST has come back: response.data, or the wrapped error
settleFetchJson(call, resp) ==
    LET r == axios(resp) IN
    [call EXCEPT !.pc = "done", !.response = resp,
                 !.outcome = IF r.ok THEN Return(r.response.data)
                             ELSE Throw(NewError(<<"RPC request failed: ">>
                                                 \o ErrorToString(r.error)))]

----------------------------------------------------------------------------
(* Inputs *)

MaxCallers == 2

RpcUrls == {"https://node.example", "https://rpc.example"}
UserAgents == {"userop/1.0", "waf-agent"}
BundlerUrls == {"https://bundler.one", "https://bundler.two"}
NeverSet == [t |-> "never", v |-> ""]
\* what setBundlerRpc is called with: nothing, the empty string, a URL
SetArgs == {Undefined, Str("")} \cup {Str(u) : u \in BundlerUrls}

\* the five bundler methods; a proper prefix, an extension and a case
\* variant of one of them; an ordinary node method
Methods ==
    bundlerMethods \cup
    {"eth_sendUserOp", "eth_sendUserOperationV2", "ETH_SENDUSEROPERATION",
     "eth_chainId"}
ParamLists == {<<>>, <<Str("0xabc"), Num("1")>>, <<BigIntV("7")>>}
Times == {"1700000000000", "1700000000001"}

ErrorObject == Obj(<< <<"message", Str("boom")>>, <<"code", Num("-32000")>> >>)
\* bodies of 2xx answers: results (falsy ones too), a full envelope, an
\* error, and malformed ones (no result and no error; not an object; null)
OkBodies ==
    {Obj(<< <<"result", r>> >>) :
        r \in {Num("42"), Num("0"), Bool("false"), Null, Str("")}}
    \cup {Obj(<< <<"jsonrpc", Str("2.0")>>, <<"id", Num("1")>>,
                 <<"result", Str("0x1")>> >>),
          Obj(<< <<"error", ErrorObject>> >>),
          Obj(<< <<"jsonrpc", Str("2.0")>>, <<"id", Num("1")>>,
                 <<"error", ErrorObject>> >>),
          Obj(<<>>), Str("<html>ok</html>"), Null}
\* bodies of non-2xx answers
FailBodies ==
    {Obj(<< <<"error", Obj(<< <<"message", Str("server down")>> >>)>> >>),
     Obj(<< <<"detail", Str("rate limited")>> >>),
     Str("Bad Gateway"), Str("")}
HttpResponses ==
    {HttpResponse(200, d) : d \in OkBodies}
    \cup {HttpResponse(st, d) : st \in {404, 500}, d \in FailBodies}
    \cup {NetworkError, Timeout}

\* the inputs of the runs with several callers at once
ConcMethods == {"eth_sendUserOperation", "eth_chainId"}
ConcParamLists == {<<Str("0xabc"), Num("1")>>}
ConcTimes == {"1700000000000"}
ConcResponses ==
    {HttpResponse(200, Obj(<< <<"result", Num("42")>> >>)),
     HttpResponse(200, Obj(<< <<"error", ErrorObject>> >>)),
     HttpResponse(500, Str("Bad Gateway")),
     NetworkError}

----------------------------------------------------------------------------
(* The state machine *)

InitOf(callers, urls, agents) ==
    /\ rpcUrl \in urls
    /\ userAgent \in agents
    /\ ctor = [rpcUrl |-> rpcUrl, userAgent |-> userAgent]
    /\ bundlerRpc = NoProvider
    /\ lastSet = NeverSet
    /\ calls = [c \in callers |-> Idle]

\* provider.setBundlerRpc(arg)
SetBundlerRpc(arg) ==
    /\ bundlerRpc' = setBundlerRpc(bundlerRpc, arg)
    /\ lastSet' = arg
    /\ UNCHANGED <<rpcUrl, userAgent, calls, ctor>>

\* caller c calls provider.send(method, params) at time now
Send(c, method, params, now) ==
    /\ calls[c].pc = "idle"
    /\ calls' = [calls EXCEPT ![c] =
                    send(bundlerRpc, rpcUrl, userAgent, method, params, now)]
    /\ UNCHANGED <<rpcUrl, userAgent, bundlerRpc, ctor, lastSet>>

\* the POST of caller c's send comes back with resp
Respond(c, resp) ==
    /\ calls[c].pc = "inflight"
    /\ calls[c].api = "send"
    /\ calls[c].transport = "primary"
    /\ calls' = [calls EXCEPT ![c] = settlePrimary(calls[c], resp)]
    /\ UNCHANGED <<rpcUrl, userAgent, bundlerRpc, ctor, lastSet>>

\* the bundler provider settles the call it was forwarded
BundlerRespond(c, result) ==
    /\ calls[c].pc = "inflight"
    /\ calls[c].transport = "secondary"
    /\ result \in bundlerSend(servingProvider(calls[c], bundlerRpc),
                              calls[c].forward.method, calls[c].forward.params)
    /\ calls' = [calls EXCEPT ![c] = settleSecondary(calls[c], result)]
    /\ UNCHANGED <<rpcUrl, userAgent, bundlerRpc, ctor, lastSet>>

\* caller c calls provider.fetchJson(connection, json)
FetchJson(c, connection, json) ==
    /\ calls[c].pc = "idle"
    /\ calls' = [calls EXCEPT ![c] = fetchJson(userAgent, connection, json)]
    /\ UNCHANGED <<rpcUrl, userAgent, bundlerRpc, ctor, lastSet>>

\* the POST of caller c's fetchJson comes back with resp
FetchJsonRespond(c, resp) ==
    /\ calls[c].pc = "inflight"
    /\ calls[c].api = "fetchJson"
    /\ calls' = [calls EXCEPT ![c] = settleFetchJson(calls[c], resp)]
    /\ UNCHANGED <<rpcUrl, userAgent, bundlerRpc, ctor, lastSet>>

\* caller c has taken the value or the error of its settled promise
Collect(c) ==
    /\ calls[c].pc = "done"
    /\ calls' = [calls EXCEPT ![c] = Idle]
    /\ UNCHANGED <<rpcUrl, userAgent, bundlerRpc, ctor, lastSet>>

BundlerResults ==
    UNION {bundlerSend(JsonRpcProvider(u), m, p) :
              u \in BundlerUrls, m \in bundlerMethods, p \in ParamLists}

\* one caller, every input
Init == InitOf({1}, RpcUrls, UserAgents)

Next ==
    \/ \E a \in SetArgs : SetBundlerRpc(a)
    \/ \E c \in DOMAIN calls, m \in Methods, p \in ParamLists, t \in Times :
          Send(c, m, p, t)
    \/ \E c \in DOMAIN calls, r \in HttpResponses : Respond(c, r)
    \/ \E c \in DOMAIN calls, r \in BundlerResults : BundlerRespond(c, r)
    \/ \E c \in DOMAIN calls, t \in Times :
          FetchJson(c, rpcUrl, JSONtext(Envelope("eth_chainId", <<>>, t)))
    \/ \E c \in DOMAIN calls, r \in HttpResponses : FetchJsonRespond(c, r)
    \/ \E c \in DOMAIN calls : Collect(c)

Spec == Init /\ [][Next]_vars

\* MaxCallers callers at once, representative inputs
InitConc == InitOf(1..MaxCallers, {"https://node.example"}, {"userop/1.0"})

NextConc ==
    \/ \E a \in SetArgs : SetBundlerRpc(a)
    \/ \E c \in DOMAIN calls, m \in ConcMethods, p \in ConcParamLists,
          t \in ConcTimes : Send(c, m, p, t)
    \/ \E c \in DOMAIN calls, r \in ConcResponses : Respond(c, r)
    \/ \E c \in DOMAIN calls, r \in BundlerResults : BundlerRespond(c, r)
    \/ \E c \in DOMAIN calls : Collect(c)

SpecConc == InitConc /\ [][NextConc]_vars

----------------------------------------------------------------------------
(* The claims *)

\* the five routed names, as the specification lists them
RoutedNames ==
    {"eth_sendUserOperation", "eth_estimateUserOperationGas",
     "eth_getUserOperationByHash", "eth_getUserOperationReceipt",
     "eth_supportedEntryPoints"}
EmptyArgs == {Undefined, Str("")}
HasProp(x, f) == x.t = "object" /\ \E i \in DOMAIN x.v : x.v[i][1] = f
Is2xx(resp) == resp.kind = "http" /\ resp.status \in 200..299
\* the calls of send that have been made and not yet collected
SendCalls == {c \in DOMAIN calls : calls[c].api = "send" /\ calls[c].pc # "idle"}
\* the text of a message, as the set of its pieces
Pieces(e) == Range(e.message)
\* the JSON-RPC body a call of send(method, params) made at time now must carry
ExpectedBody(method, params, now) ==
    "{\"method\":\"" \o method \o "\",\"params\":" \o JSONtext(Arr(params))
    \o ",\"id\":" \o now \o ",\"jsonrpc\":\"2.0\"}"

\* C1: a send of one of the five routed names, made while a bundler provider
\* is configured, calls that provider's send with the same method and params,
\* once, and makes no HTTP request of its own.
C1_RoutedGoesToBundler ==
    \A c \in SendCalls :
        (calls[c].method \in RoutedNames /\ calls[c].cfg # NoProvider) =>
            /\ calls[c].transport = "secondary"
            /\ calls[c].provider = calls[c].cfg
            /\ calls[c].forward = [method |-> calls[c].method, params |-> calls[c].params]
            /\ calls[c].forwards = 1
            /\ calls[c].posts = 0
            /\ calls[c].request = NoRequest

\* a routed call has been forwarded and answered by the bundler
C1_Witness ==
    \E c \in SendCalls :
        /\ calls[c].method = "eth_supportedEntryPoints"
        /\ calls[c].cfg # NoProvider
        /\ calls[c].pc = "done"
        /\ calls[c].outcome.kind = "value"

\* C2 as stated: a send of any other method name, or of any method while no
\* bundler provider is configured, issues an HTTP POST and never calls a
\* bundler provider.
C2_AlwaysPosts ==
    \A c \in SendCalls :
        (calls[c].method \notin RoutedNames \/ calls[c].cfg = NoProvider) =>
            /\ calls[c].posts = 1
            /\ calls[c].request.method = "POST"
            /\ calls[c].forwards = 0

\* C2 as amended: such a send takes the primary path and never calls a bundler
\* provider; it issues exactly one POST to the primary URL when its params
\* can be serialized, and otherwise fails before any request is made.
C2_PrimaryPath ==
    \A c \in SendCalls :
        (calls[c].method \notin RoutedNames \/ calls[c].cfg = NoProvider) =>
            /\ calls[c].transport = "primary"
            /\ calls[c].forwards = 0
            /\ calls[c].forward = NoForward
            /\ IF Serializable(Arr(calls[c].params))
               THEN /\ calls[c].posts = 1
                    /\ calls[c].request.method = "POST"
                    /\ calls[c].request.url = rpcUrl
               ELSE /\ calls[c].posts = 0
                    /\ calls[c].request = NoRequest
                    /\ calls[c].pc = "done"
                    /\ calls[c].outcome.kind = "error"

\* an extension of a routed name is posted although a bundler is configured
C2_Witness ==
    \E c \in SendCalls :
        /\ calls[c].method = "eth_sendUserOperationV2"
        /\ calls[c].cfg # NoProvider
        /\ calls[c].posts = 1

\* C3 as stated: after setBundlerRpc was called with an empty or undefined
\* value, no bundler provider exists.
C3_EmptyClears == lastSet \in EmptyArgs => bundlerRpc = NoProvider

\* C3 as amended: a setBundlerRpc call with an empty or undefined value
\* changes nothing: the bundler provider (or its absence), the primary
\* configuration and the calls in flight are what they were before it.
C3_EmptyChangesNothing ==
    [][(lastSet' \in EmptyArgs /\ lastSet' # lastSet) =>
          /\ bundlerRpc' = bundlerRpc
          /\ calls' = calls
          /\ rpcUrl' = rpcUrl
          /\ userAgent' = userAgent]_vars

\* setBundlerRpc was last called with nothing and the bundler configured
\* before is still there, with a routed call it has answered
C3_Witness ==
    /\ lastSet \in EmptyArgs
    /\ bundlerRpc # NoProvider
    /\ \E c \in SendCalls : calls[c].transport = "secondary" /\ calls[c].pc = "done"

\* C4: a 2xx answer whose body carries an error object makes send fail with
\* an RPC error: its message starts as an RPC error (not as a transport or an
\* unexpected error) and contains the server's message, and its code is the
\* server's code.
C4_RpcErrorSurfaced ==
    \A c \in SendCalls :
        (/\ calls[c].pc = "done"
         /\ calls[c].transport = "primary"
         /\ Is2xx(calls[c].response)
         /\ HasProp(calls[c].response.data, "error")
         /\ Get(calls[c].response.data, "error").t = "object") =>
            LET err == Get(calls[c].response.data, "error") IN
            /\ calls[c].outcome.kind = "error"
            /\ calls[c].outcome.error.message[1] = "RPC Error: "
            /\ ToStr(Get(err, "message")) \in Pieces(calls[c].outcome.error)
            /\ calls[c].outcome.error.code = Get(err, "code")

\* C5: a 2xx answer whose body is an object with a result and no error makes
\* send resolve to exactly that result, falsy or not.
C5_ResultUnwrapped ==
    \A c \in SendCalls :
        (/\ calls[c].pc = "done"
         /\ calls[c].transport = "primary"
         /\ Is2xx(calls[c].response)
         /\ HasProp(calls[c].response.data, "result")
         /\ ~HasProp(calls[c].response.data, "error")) =>
            /\ calls[c].outcome.kind = "value"
            /\ calls[c].outcome.value = Get(calls[c].response.data, "result")
            /\ calls[c].outcome.value # calls[c].response.data

\* a falsy result has been returned
C5_Witness ==
    \E c \in SendCalls :
        /\ calls[c].pc = "done"
        /\ calls[c].response = HttpResponse(200, Obj(<< <<"result", Num("0")>> >>))
        /\ calls[c].outcome = Return(Num("0"))

\* C6: a POST that fails makes send fail, with a message that names the
\* method and the params; when the server answered (a non-2xx status) the
\* message also holds the status code and the body it sent, if it sent one.
C6_TransportErrorContext ==
    \A c \in SendCalls :
        (/\ calls[c].pc = "done"
         /\ calls[c].transport = "primary"
         /\ calls[c].posts = 1
         /\ ~Is2xx(calls[c].response)) =>
            LET said == Pieces(calls[c].outcome.error)
                resp == calls[c].response IN
            /\ calls[c].outcome.kind = "error"
            /\ calls[c].outcome.error.message[1] = "HTTP "
            /\ calls[c].method \in said
            /\ JSONtext(Arr(calls[c].params)) \in said
            /\ resp.kind = "http" =>
                  /\ IntToStr(resp.status) \in said
                  /\ resp.data # Str("") => JSONtext(resp.data) \in said

\* an HTTP 500 with the body {"error":{"message":"server down"}} has failed a call
C6_Witness ==
    \E c \in SendCalls :
        /\ calls[c].pc = "done"
        /\ calls[c].response.kind = "http"
        /\ calls[c].response.status = 500
        /\ JSONtext(calls[c].response.data) = "{\"error\":{\"message\":\"server down\"}}"
        /\ "500" \in Pieces(calls[c].outcome.error)
        /\ "server down" \in Pieces(calls[c].outcome.error)

\* C7: every request made on the primary path is a POST with the headers
\* Content-Type: application/json and User-Agent: <the constructor's value>;
\* a request of send goes to the constructor's URL with the JSON-RPC body of
\* the call's method and params; no setBundlerRpc call changes either value.
C7_PrimaryRequest ==
    /\ rpcUrl = ctor.rpcUrl
    /\ userAgent = ctor.userAgent
    /\ \A c \in DOMAIN calls :
          calls[c].posts > 0 =>
            LET req == calls[c].request IN
            /\ req.method = "POST"
            /\ <<"Content-Type", "application/json">> \in Range(req.headers)
            /\ <<"User-Agent", ctor.userAgent>> \in Range(req.headers)
            /\ \A h \in Range(req.headers) :
                  h[1] = "User-Agent" => h[2] = ctor.userAgent
            /\ calls[c].api = "send" =>
                  /\ req.url = ctor.rpcUrl
                  /\ \E t \in Times :
                        req.data = ExpectedBody(calls[c].method, calls[c].params, t)

\* a request is in flight on the primary path while a bundler is configured
C7_Witness ==
    \E c \in SendCalls :
        /\ calls[c].pc = "inflight"
        /\ calls[c].posts = 1
        /\ bundlerRpc # NoProvider
        /\ calls[c].request.data =
              "{\"method\":\"eth_chainId\",\"params\":[\"0xabc\",1],\"id\":1700000000001,\"jsonrpc\":\"2.0\"}"

\* C8: a call uses one path and attempts it at most once, also when it
\* fails; while it waits it has no outcome, and once settled it has exactly
\* one: a value or an error.
C8_OnePathOneOutcome ==
    \A c \in DOMAIN calls :
        calls[c].pc # "idle" =>
            /\ calls[c].posts + calls[c].forwards <= 1
            /\ calls[c].transport = "secondary" =>
                  calls[c].forwards = 1 /\ calls[c].posts = 0
            /\ calls[c].transport = "primary" => calls[c].forwards = 0
            /\ calls[c].pc = "inflight" =>
                  calls[c].outcome = Pending /\ calls[c].posts + calls[c].forwards = 1
            /\ calls[c].pc = "done" =>
                  /\ calls[c].outcome.kind \in {"value", "error"}
                  /\ calls[c].outcome.kind = "value" => calls[c].outcome.error = NoError
                  /\ calls[c].outcome.kind = "error" =>
                        /\ calls[c].outcome.value = Undefined
                        /\ calls[c].outcome.error # NoError

\* a forwarded call has failed, and that was the end of it
C8_Witness ==
    \E c \in SendCalls :
        /\ calls[c].pc = "done"
        /\ calls[c].transport = "secondary"
        /\ calls[c].outcome.kind = "error"
        /\ calls[c].posts = 0

\* C9: on the primary path a failure to serialize the params, and a 2xx
\* answer that is not an object or has neither a result nor an error, make
\* send fail with the wrapped 'unexpected' error.
C9_OtherFailuresWrapped ==
    \A c \in SendCalls :
        (/\ calls[c].pc = "done"
         /\ calls[c].transport = "primary"
         /\ \/ ~Serializable(Arr(calls[c].params))
            \/ /\ Is2xx(calls[c].response)
               /\ ~HasProp(calls[c].response.data, "result")
               /\ ~HasProp(calls[c].response.data, "error")) =>
            /\ calls[c].outcome.kind = "error"
            /\ calls[c].outcome.error.message[1] = "Unexpected error during RPC request: "

\* C10: with several calls and setBundlerRpc interleaved, a call's
\* destination is the one the configuration gave when it was invoked, it is
\* attempted once, a forwarded call is settled by the provider configured at
\* its invocation with its own arguments, and two calls with the same
\* arguments and the same answer settle alike.
C10_CallsIndependent ==
    /\ \A c \in SendCalls :
          /\ calls[c].posts + calls[c].forwards <= 1
          /\ calls[c].transport = "secondary" =>
                /\ calls[c].cfg # NoProvider
                /\ calls[c].provider = calls[c].cfg
                /\ calls[c].pc = "done" =>
                      calls[c].outcome \in
                          bundlerSend(calls[c].cfg, calls[c].method, calls[c].params)
          /\ calls[c].transport = "primary" /\ calls[c].posts = 1 =>
                calls[c].request.url = ctor.rpcUrl
    /\ \A c, d \in SendCalls :
          (/\ calls[c].pc = "done" /\ calls[d].pc = "done"
           /\ calls[c].transport = "primary" /\ calls[d].transport = "primary"
           /\ calls[c].method = calls[d].method
           /\ calls[c].params = calls[d].params
           /\ calls[c].response = calls[d].response) =>
              calls[c].outcome = calls[d].outcome

\* a forwarded call was settled after setBundlerRpc replaced the provider,
\* while another call was in flight
C10_Witness ==
    \E c, d \in SendCalls :
        /\ c # d
        /\ calls[c].pc = "done"
        /\ calls[c].transport = "secondary"
        /\ calls[c].provider # bundlerRpc
        /\ calls[d].pc = "inflight"

====
